---- MODULE Spec2Model ----
(***************************************************************************)
(* A model of giternity (src/giternity.py): the archive planner of main,   *)
(* the paginated group expansion of GitHub.get_repos, the mirror           *)
(* synchroniser mirror(), the plan executor and the checkout materialiser  *)
(* find_repos.                                                             *)
(*                                                                         *)
(* Strings are sequences of tokens: "acme/widget" is <<"a", "/", "w">>,    *)
(* so that concatenation, os.path.join, str.split and "/" in s are         *)
(* computed as Python computes them.  Python's None is the one-token       *)
(* string None, a key a dict does not have is Missing.                     *)
(***************************************************************************)
EXTENDS Integers, Sequences, FiniteSets, TLC

VARIABLES
    config,       \* the loaded configuration (toml.load) and the --dry-run flag
    pages,        \* the upstream: what /users/<user>/repos?page=n answers
    remote,       \* the upstream: the version each clone URL serves
    fs,           \* local storage: path -> what mirror() and main left there
    fs0,          \* local storage when the process started
    checkouts,    \* storage under checkout_path: destination -> what it holds
    pc,           \* the position of main
    i,            \* the index of the for loop main is in
    archive_plan, \* main's archive_plan list
    data,         \* get_repos' accumulator
    next_page,    \* get_repos' continuation cursor
    requests,     \* page requests issued by the running get_repos call
    served,       \* the pages the running get_repos call was served, in order
    returned,     \* the list the latest get_repos call returned, None before
    findCalls,    \* the calls of find_repos main made
    output,       \* the lines printed by the dry run
    syncLog,      \* the mirror() calls of this process, in order
    lookupFailed, \* a catalog lookup of this process failed
    status,       \* the exit status of the process, None while it runs
    hist          \* the previous and the latest mirror() call (SpecMirror)

vars == <<config, pages, remote, fs, fs0, checkouts, pc, i, archive_plan, data,
          next_page, requests, served, returned, findCalls, output, syncLog,
          lookupFailed, status, hist>>

-----------------------------------------------------------------------------
(* Bounds of the model. *)

\* the page numbers the upstream serves for the group
NumPages == 2
\* page requests one get_repos call is followed for
MaxRequests == 4
\* the versions a remote repository goes through
MaxVersion == 2
\* mirror() calls followed in SpecMirror
MaxSyncs == 3
\* the tokens of a description rendered in SpecRender
MaxDescLen == 2
MaxClones == 3

-----------------------------------------------------------------------------
(* Strings. *)

None == <<"<None>">>
Missing == <<"<missing>">>

\* Python truthiness of an optional string: None and "" are falsy
Truthy(s) == s # None /\ s # <<>>

\* "/" in s
HasSlash(s) == \E k \in 1..Len(s) : s[k] = "/"

RECURSIVE Split(_)
\* s.split("/")
Split(s) ==
    IF ~HasSlash(s) THEN <<s>>
    ELSE LET k == CHOOSE k \in 1..Len(s) :
                      s[k] = "/" /\ \A m \in 1..(k - 1) : s[m] # "/"
         IN  <<SubSeq(s, 1, k - 1)>> \o Split(SubSeq(s, k + 1, Len(s)))

\* os.path.join(a, b)
join(a, b) ==
    IF Len(b) > 0 /\ b[1] = "/" THEN b
    ELSE IF a = <<>> \/ a[Len(a)] = "/" THEN a \o b
    ELSE a \o <<"/">> \o b

RECURSIVE Replace(_, _, _)
\* s.replace(old, new)
Replace(s, old, new) ==
    IF Len(s) < Len(old) \/ old = <<>> THEN s
    ELSE IF SubSeq(s, 1, Len(old)) = old
         THEN new \o Replace(SubSeq(s, Len(old) + 1, Len(s)), old, new)
         ELSE <<s[1]>> \o Replace(Tail(s), old, new)

RECURSIVE Remove(_, _)
\* s.replace(t, "")
Remove(s, t) ==
    IF s = <<>> THEN <<>>
    ELSE IF s[1] = t THEN Remove(Tail(s), t)
    ELSE <<s[1]>> \o Remove(Tail(s), t)

\* the components of a path: the tokens between separators, empty ones dropped
Components(p) == SelectSeq(Split(p), LAMBDA c : c # <<>>)

\* path p lies strictly below directory d
Below(d, p) ==
    LET cd == Components(d)
        cp == Components(p)
    IN  Len(cp) > Len(cd) /\ SubSeq(cp, 1, Len(cd)) = cd

-----------------------------------------------------------------------------
(* The catalog the upstream API serves. *)

\* "https://github.com/{}/{}.git".format(owner, name)
GitHubUrl(owner, name) ==
    <<"https://github.com/">> \o owner \o <<"/">> \o name \o <<".git">>

Descriptor(owner, name, fork, description, homepage) ==
    [full_name |-> owner \o <<"/">> \o name, name |-> name, owner |-> owner,
     clone_url |-> GitHubUrl(owner, name), fork |-> fork,
     description |-> description, homepage |-> homepage]

RepoIds == {"R1", "R2", "R3"}

\* the repositories of the upstream: R2 is a fork
Repo(id) ==
    CASE id = "R1" -> Descriptor(<<"a">>, <<"w">>, FALSE, None, None)
      [] id = "R2" -> Descriptor(<<"a">>, <<"x">>, TRUE,
                                 <<"fork", "\n", "copy">>, <<"http://x">>)
      [] id = "R3" -> Descriptor(<<"a">>, <<"y">>, FALSE, <<"tool">>, None)

\* what a non-success answer decodes to: {"message": ...}, a dict with none of a
\* descriptor's keys
ErrorBody ==
    [full_name |-> Missing, name |-> Missing, owner |-> Missing,
     clone_url |-> Missing, fork |-> FALSE,
     description |-> Missing, homepage |-> Missing]

\* iterating that dict yields its keys
ErrorKeys == <<"message">>

\* the answers GET /repos/<owner>/<name> can give: the descriptor, a transport
\* failure (requests raises), a non-success status with an error body
get_repo(owner, name) ==
    {[kind |-> "ok", json |-> Repo(id)] :
        id \in {r \in RepoIds : Repo(r).full_name = owner \o <<"/">> \o name}}
    \cup {[kind |-> "neterr", json |-> ErrorBody],
          [kind |-> "errbody", json |-> ErrorBody]}

\* one page of GET /users/<user>/repos (the one group of the configurations is
\* the user): the decoded body and the page the Link header names as next (0:
\* no Link header, or none with rel="next"); requests raises on a transport
\* failure or a body that is no JSON
get_repos_page(user, page) ==
    LET p == pages[page]
    IN  CASE p.kind = "ok" -> [raised |-> FALSE, json |-> p.items, next |-> p.next]
          [] p.kind = "errbody" -> [raised |-> FALSE, json |-> ErrorKeys, next |-> 0]
          [] p.kind = "neterr" -> [raised |-> TRUE, json |-> <<>>, next |-> 0]

\* the slip of returning every repository fetched
NonForks_None(d) == d

\* data = [r for r in data if not r["fork"]]; r["fork"] of a str is a TypeError
FilterRaises(d) == \E k \in 1..Len(d) : d[k] \notin RepoIds

NonForks(d) == SelectSeq(d, LAMBDA r : ~Repo(r).fork)

KeyError == <<"<KeyError>">>

\* GitHub.repo_to_cgitrc
repo_to_cgitrc(cgit_url, d) ==
    LET clone_url ==
            IF Truthy(cgit_url)
            THEN <<"clone-url=">> \o cgit_url \o d.full_name \o <<" ">>
                 \o d.clone_url \o <<"\n">>
            ELSE <<"clone-url=">> \o d.clone_url \o <<"\n">>
        desc ==
            IF Truthy(d.description)
            THEN <<"desc=">> \o Remove(d.description, "\n") \o <<"\n">>
            ELSE <<"desc=Mysterious Project", "\n">>
        homepage ==
            IF Truthy(d.homepage)
            THEN <<"homepage=">> \o d.homepage \o <<"\n">>
            ELSE <<>>
        name == <<"name=">> \o d.name \o <<"\n">>
        read == (IF Truthy(cgit_url) THEN {d.full_name} ELSE {})
                \cup {d.clone_url, d.description, d.homepage, d.name}
    IN  IF Missing \in read THEN KeyError
        ELSE homepage \o clone_url \o desc \o name

-----------------------------------------------------------------------------
(* Local storage and mirror(). *)

\* the outcomes of the git step of mirror(): it exits 0, it exits non-zero
\* (run() has no check=True: nothing is raised), or the clone exits non-zero
\* because the destination cannot be created, and then os.makedirs raises too.
\* A directory that is no repository (left by an earlier failed clone) fails
\* every update.
GitOutcomes(store, path) ==
    IF path \in DOMAIN store
    THEN IF store[path].kind = "repo" THEN {"ok", "fail"} ELSE {"fail"}
    ELSE {"ok", "fail", "denied"}

\* what git for-each-ref --sort=-authordate --count=1 prints: the date of the
\* newest tip, nothing in a directory that is no repository
LastModified(store, path) ==
    IF store[path].kind = "repo" THEN <<"date", store[path].content>> ELSE <<>>

\* the slip of computing the marker before the git step has run
Stamp_Early(before, after, path) ==
    IF path \in DOMAIN before THEN LastModified(before, path) ELSE <<>>

\* lines 52-60: the marker is computed from the mirror as the git step left it
Stamp(before, after, path) == LastModified(after, path)

\* the slip of updating from the URL passed in
FetchFrom_Url(store, url, path) == url

\* lines 41-42: git -C path remote update names no URL: it fetches from the
\* remote recorded in the repository when it was cloned
FetchFrom(store, url, path) == store[path].origin

\* line 40: exists(path) sends mirror() to the update
Updates(store, path) == path \in DOMAIN store

\* mirror(url, path) on storage `store`
mirror(store, url, path, git) ==
    LET synced ==
            IF Updates(store, path)
            THEN \* git remote update --prune
                 IF store[path].kind = "repo" /\ git = "ok"
                 THEN [store EXCEPT
                          ![path].content = remote[FetchFrom(store, url, path)]]
                 ELSE store
            ELSE \* git clone --bare --mirror url path
                 IF git = "ok"
                 THEN (path :> [kind |-> "repo", origin |-> url,
                                content |-> remote[url],
                                marker |-> Missing, cgitrc |-> Missing]) @@ store
                 ELSE store
        made ==
            IF path \in DOMAIN synced THEN synced
            ELSE (path :> [kind |-> "dir", origin |-> url, content |-> 0,
                           marker |-> Missing, cgitrc |-> Missing]) @@ synced
        step == IF Updates(store, path) THEN "update" ELSE "clone"
    IN  IF git = "denied"
        THEN [fs |-> synced, raised |-> TRUE, step |-> step]
        ELSE [fs |-> [made EXCEPT ![path].marker = Stamp(store, made, path)],
              raised |-> FALSE, step |-> step]

-----------------------------------------------------------------------------
(* The configurations and upstreams the runs are drawn from. *)

\* github.repositories: an owner/name reference to R1, one to the fork R2, and
\* the group reference that expands to the upstream's pages
RefWidget == <<"a", "/", "w">>
RefFork == <<"a", "/", "x">>
RefGroup == <<"a">>

RefLists ==
    {<<>>, <<RefWidget>>, <<RefGroup>>, <<RefFork>>,
     <<RefWidget, RefGroup>>, <<RefGroup, RefWidget>>, <<RefFork, RefGroup>>}

\* repos: an ad-hoc repository with the full name of R1
AdhocWidget ==
    [owner |-> <<"a">>, name |-> <<"w">>, clone_url |-> <<"git://host/w">>,
     fork |-> FALSE, description |-> <<>>, homepage |-> <<>>, full_name |-> Missing]

\* repos: an ad-hoc repository flagged as a fork, cloned from the URL of R2
AdhocFork ==
    [owner |-> <<"a">>, name |-> <<"x">>, clone_url |-> Repo("R2").clone_url,
     fork |-> TRUE, description |-> <<>>, homepage |-> <<>>, full_name |-> Missing]

AdhocLists == {<<>>, <<AdhocWidget>>, <<AdhocFork>>}

Roots == {<<"/srv/git", "/">>, <<"/srv/git">>}

Configs ==
    [git_data_path : Roots, checkout_path : {None, <<"/srv/checkout", "/">>},
     cgit_url : {None, <<"https://cgit/">>}, checkout_suffix : {<<>>, <<".git">>},
     repositories : RefLists, repos : AdhocLists, dry_run : BOOLEAN]

Urls == {Repo(id).clone_url : id \in RepoIds} \cup {AdhocWidget.clone_url}

EmptyPage == [kind |-> "ok", items |-> <<>>, next |-> 0]

Page(items, next) == [kind |-> "ok", items |-> items, next |-> next]

Layout(p1, p2) ==
    [n \in 1..NumPages |-> IF n = 1 THEN p1 ELSE IF n = 2 THEN p2 ELSE EmptyPage]

\* the upstreams of a whole run: one page, two pages, a failing second page, a
\* failing first page
RunUpstreams ==
    {Layout(Page(<<"R1", "R2">>, 0), EmptyPage),
     Layout(Page(<<"R1">>, 2), Page(<<"R3">>, 0)),
     Layout(Page(<<"R1">>, 2), [kind |-> "errbody", items |-> <<>>, next |-> 0]),
     Layout([kind |-> "neterr", items |-> <<>>, next |-> 0], EmptyPage)}

\* a mirror of R1 left by an earlier run, one version behind
PriorMirror(c) ==
    join(c.git_data_path, RefWidget \o c.checkout_suffix)
        :> [kind |-> "repo", origin |-> Repo("R1").clone_url, content |-> 0,
            marker |-> <<"date", 0>>, cgitrc |-> <<"old">>]

\* the state of a path that does not exist
Absent ==
    [kind |-> "absent", origin |-> <<>>, content |-> 0,
     marker |-> Missing, cgitrc |-> Missing]

\* what a path holds
StateOf(store, path) == IF path \in DOMAIN store THEN store[path] ELSE Absent

NoCall ==
    [url |-> <<>>, path |-> <<>>, git |-> "none", step |-> "none",
     before |-> Absent, after |-> Absent]

\* no mirror() call yet.  between: the upstream did not change between the
\* previous call and the latest; clean: it has not changed since the latest
NoHist == [prev |-> NoCall, last |-> NoCall, between |-> TRUE, clean |-> TRUE]

-----------------------------------------------------------------------------
(* main. *)

\* what no step of a run changes: the configuration and the upstream
env == <<config, pages, remote, fs0>>

\* the locals of get_repos
paging == <<data, next_page, requests, served, returned>>

Init ==
    /\ config \in Configs
    /\ pages \in RunUpstreams
    /\ remote = [u \in Urls |-> 1]
    /\ fs0 \in {<<>>, PriorMirror(config)}
    /\ fs = fs0
    /\ checkouts = <<>>
    /\ pc = "github"
    /\ i = 1
    /\ archive_plan = <<>>
    /\ data = <<>>
    /\ next_page = 0
    /\ requests = 0
    /\ served = <<>>
    /\ returned = None
    /\ findCalls = 0
    /\ output = <<>>
    /\ syncLog = <<>>
    /\ lookupFailed = FALSE
    /\ status = None
    /\ hist = NoHist

\* an uncaught exception: main has no try, the interpreter prints the traceback
\* and the process exits 1
Raise ==
    /\ pc' = "crashed"
    /\ status' = 1

Entry(repo, metadata, url, path, ref) ==
    [repo |-> repo, metadata |-> metadata, url |-> url, path |-> path, ref |-> ref]

\* the slip of inserting at the head of the plan
Planned_Front(plan, entries) == entries \o plan

\* archive_plan.append(...) for each of `entries`
Planned(plan, entries) == plan \o entries

\* the slip of a renderer that tolerates a body without the descriptor's keys
LookupRaises_Lenient(answer, metadata) == answer.kind = "neterr"

\* lines 244-245: get_repo raises when the transport fails; the error body of a
\* non-success status is returned as the descriptor and repo_to_cgitrc raises
\* KeyError on it
LookupRaises(answer, metadata) == answer.kind = "neterr" \/ metadata = KeyError

\* lines 237-246: one owner/name reference
PlanRepo ==
    /\ pc = "github"
    /\ i <= Len(config.repositories)
    /\ HasSlash(config.repositories[i])
    /\ LET addr == config.repositories[i]
           path == join(config.git_data_path, addr \o config.checkout_suffix)
           owner == Split(addr)[1]
           name == Split(addr)[2]
           url == GitHubUrl(owner, name)
       IN  \E answer \in get_repo(owner, name) :
               LET metadata == repo_to_cgitrc(config.cgit_url, answer.json)
               IN  /\ lookupFailed' = (lookupFailed \/ answer.kind # "ok")
                   /\ IF LookupRaises(answer, metadata)
                      THEN /\ Raise
                           /\ UNCHANGED <<i, archive_plan>>
                      ELSE /\ archive_plan' = Planned(archive_plan,
                                  <<Entry(answer.json, metadata, url, path,
                                          [kind |-> "repo", index |-> i])>>)
                           /\ i' = i + 1
                           /\ UNCHANGED <<pc, status>>
    /\ UNCHANGED <<env, fs, checkouts, paging, findCalls, output, syncLog, hist>>

\* lines 248-250 and 114: a group reference; get_repos requests page 1
PlanGroup ==
    /\ pc = "github"
    /\ i <= Len(config.repositories)
    /\ ~HasSlash(config.repositories[i])
    /\ LET r == get_repos_page(config.repositories[i], 1)
       IN  /\ requests' = 1
           /\ served' = <<1>>
           /\ returned' = None
           /\ lookupFailed' = (lookupFailed \/ pages[1].kind # "ok")
           /\ IF r.raised
              THEN /\ Raise
                   /\ UNCHANGED <<data, next_page>>
              ELSE /\ data' = r.json
                   /\ next_page' = r.next
                   /\ pc' = "paging"
                   /\ UNCHANGED status
    /\ UNCHANGED <<env, fs, checkouts, i, archive_plan, findCalls, output, syncLog,
                   hist>>

\* line 115: while next_page
LoopsOn(cursor, count) == cursor # 0

\* lines 115-117: one turn of the loop (followed for MaxRequests requests)
GetReposLoop ==
    /\ pc = "paging"
    /\ LoopsOn(next_page, requests)
    /\ requests < MaxRequests
    /\ LET r == get_repos_page(config.repositories[i], next_page)
       IN  /\ requests' = requests + 1
           /\ served' = Append(served, next_page)
           /\ lookupFailed' = (lookupFailed \/ pages[next_page].kind # "ok")
           /\ IF r.raised
              THEN /\ Raise
                   /\ UNCHANGED <<data, next_page>>
              ELSE /\ data' = data \o r.json
                   /\ next_page' = r.next
                   /\ UNCHANGED <<pc, status>>
    /\ UNCHANGED <<env, fs, checkouts, i, archive_plan, returned, findCalls, output,
                   syncLog, hist>>

\* line 118: the list get_repos returns
get_repos_result(d) == NonForks(d)

\* lines 250-256: the entries main plans for the repositories get_repos returned
GroupEntries(c, repos, index) ==
    [k \in 1..Len(repos) |->
        Entry(Repo(repos[k]),
              repo_to_cgitrc(c.cgit_url, Repo(repos[k])),
              Repo(repos[k]).clone_url,
              join(c.git_data_path, Repo(repos[k]).full_name \o c.checkout_suffix),
              [kind |-> "group", index |-> index])]

\* lines 118-119 and 250-256: the loop is left, the forks are filtered out and
\* main plans one entry for each repository returned
GetReposReturn ==
    /\ pc = "paging"
    /\ ~LoopsOn(next_page, requests)
    /\ IF FilterRaises(data)
       THEN /\ Raise
            /\ UNCHANGED <<i, archive_plan, data, returned>>
       ELSE /\ data' = get_repos_result(data)
            /\ returned' = data'
            /\ archive_plan' = Planned(archive_plan, GroupEntries(config, data', i))
            /\ i' = i + 1
            /\ pc' = "github"
            /\ UNCHANGED status
    /\ UNCHANGED <<env, fs, checkouts, next_page, requests, served, findCalls,
                   output, syncLog, lookupFailed, hist>>

\* line 237 exhausted: main goes on to line 261
GithubDone ==
    /\ pc = "github"
    /\ i > Len(config.repositories)
    /\ pc' = "adhoc"
    /\ i' = 1
    /\ UNCHANGED <<env, fs, checkouts, archive_plan, paging, findCalls, output,
                   syncLog, lookupFailed, status, hist>>

\* lines 263-269: one ad-hoc repository
PlanAdhoc ==
    /\ pc = "adhoc"
    /\ i <= Len(config.repos)
    /\ LET repo == [config.repos[i] EXCEPT
                       !.full_name = config.repos[i].owner \o <<"/">>
                                     \o config.repos[i].name]
           path == config.git_data_path \o repo.full_name \o config.checkout_suffix
           url == repo.clone_url
           metadata == repo_to_cgitrc(config.cgit_url, repo)
       IN  IF metadata = KeyError
           THEN /\ Raise
                /\ UNCHANGED <<i, archive_plan>>
           ELSE /\ archive_plan' = Planned(archive_plan,
                       <<Entry(repo, metadata, url, path,
                               [kind |-> "adhoc", index |-> i])>>)
                /\ i' = i + 1
                /\ UNCHANGED <<pc, status>>
    /\ UNCHANGED <<env, fs, checkouts, paging, findCalls, output, syncLog,
                   lookupFailed, hist>>

\* """%s (%s) -> %s""" % (repo["full_name"], url, path)
PlanLine(e) == e.repo.full_name \o <<" (">> \o e.url \o <<") -> ">> \o e.path

\* line 271: if args.dry_run
Prints(c) == c.dry_run

\* the slip of executing the plan whatever the flag says
Executes_Always(c) == TRUE

\* line 275: else
Executes(c) == ~c.dry_run

\* lines 271-273: the dry run prints the plan and main returns
PrintPlan ==
    /\ pc = "adhoc"
    /\ i > Len(config.repos)
    /\ Prints(config)
    /\ output' = [k \in 1..Len(archive_plan) |-> PlanLine(archive_plan[k])]
    /\ pc' = "done"
    /\ status' = 0
    /\ UNCHANGED <<env, fs, checkouts, i, archive_plan, paging, findCalls, syncLog,
                   lookupFailed, hist>>

\* lines 275-277: the plan is executed
StartMirroring ==
    /\ pc = "adhoc"
    /\ i > Len(config.repos)
    /\ Executes(config)
    /\ pc' = "mirroring"
    /\ i' = 1
    /\ UNCHANGED <<env, fs, checkouts, archive_plan, paging, findCalls, output,
                   syncLog, lookupFailed, status, hist>>

\* lines 277-282: one entry is mirrored and its cgitrc written
MirrorEntry ==
    /\ pc = "mirroring"
    /\ i <= Len(archive_plan)
    /\ \E git \in GitOutcomes(fs, archive_plan[i].path) :
           LET e == archive_plan[i]
               r == mirror(fs, e.url, e.path, git)
           IN  /\ IF r.raised
                  THEN /\ fs' = r.fs
                       /\ Raise
                       /\ UNCHANGED i
                  ELSE /\ fs' = [r.fs EXCEPT ![e.path].cgitrc = e.metadata]
                       /\ i' = i + 1
                       /\ UNCHANGED <<pc, status>>
               /\ syncLog' = Append(syncLog,
                                    [url |-> e.url, path |-> e.path, git |-> git,
                                     step |-> r.step,
                                     before |-> StateOf(fs, e.path),
                                     after |-> StateOf(fs', e.path)])
    /\ UNCHANGED <<env, checkouts, archive_plan, paging, findCalls, output,
                   lookupFailed, hist>>

\* the slip of materializing checkouts whatever the configuration says
Materializes_Always(c) == TRUE

\* line 284: if checkout_path
Materializes(c) == Truthy(c.checkout_path)

\* what lies in directories below git_data_path (which itself exists):
\* os.scandir(git_data_path) yields a directory exactly when this is not empty
ScanDirs(store, root) == {p \in DOMAIN store : Below(root, p)}

\* lines 284-286 and 153-161: find_repos; entry.git_data_path is no attribute of
\* os.DirEntry, so the first directory scanned raises AttributeError before any
\* clone() is reached
FindRepos ==
    /\ pc = "mirroring"
    /\ i > Len(archive_plan)
    /\ Materializes(config)
    /\ findCalls' = findCalls + 1
    /\ IF ScanDirs(fs, config.git_data_path) # {}
       THEN Raise
       ELSE /\ pc' = "done"
            /\ status' = 0
    /\ UNCHANGED <<env, fs, checkouts, i, archive_plan, paging, output, syncLog,
                   lookupFailed, hist>>

\* line 284 with no checkout_path: main returns
Exit ==
    /\ pc = "mirroring"
    /\ i > Len(archive_plan)
    /\ ~Materializes(config)
    /\ pc' = "done"
    /\ status' = 0
    /\ UNCHANGED <<env, fs, checkouts, i, archive_plan, paging, findCalls, output,
                   syncLog, lookupFailed, hist>>

Next ==
    \/ PlanRepo
    \/ PlanGroup
    \/ GetReposLoop
    \/ GetReposReturn
    \/ GithubDone
    \/ PlanAdhoc
    \/ PrintPlan
    \/ StartMirroring
    \/ MirrorEntry
    \/ FindRepos
    \/ Exit

Spec == Init /\ [][Next]_vars

-----------------------------------------------------------------------------
(* Group expansion alone: get_repos against every upstream. *)

ItemLists == {<<>>, <<"R1">>, <<"R2">>, <<"R3">>, <<"R1", "R2">>}

PageAnswers ==
    {Page(items, next) : items \in ItemLists, next \in 0..NumPages}
    \cup {[kind |-> "errbody", items |-> <<>>, next |-> 0],
          [kind |-> "neterr", items |-> <<>>, next |-> 0]}

Upstreams == [1..NumPages -> PageAnswers]

GroupConfig ==
    [git_data_path |-> <<"/srv/git", "/">>, checkout_path |-> None,
     cgit_url |-> None, checkout_suffix |-> <<>>,
     repositories |-> <<RefGroup>>, repos |-> <<>>, dry_run |-> TRUE]

InitCatalog ==
    /\ config = GroupConfig
    /\ pages \in Upstreams
    /\ remote = [u \in Urls |-> 1]
    /\ fs0 = <<>>
    /\ fs = fs0
    /\ checkouts = <<>>
    /\ pc = "github"
    /\ i = 1
    /\ archive_plan = <<>>
    /\ data = <<>>
    /\ next_page = 0
    /\ requests = 0
    /\ served = <<>>
    /\ returned = None
    /\ findCalls = 0
    /\ output = <<>>
    /\ syncLog = <<>>
    /\ lookupFailed = FALSE
    /\ status = None
    /\ hist = NoHist

NextCatalog ==
    \/ PlanGroup
    \/ GetReposLoop
    \/ GetReposReturn

SpecCatalog == InitCatalog /\ [][NextCatalog]_vars

-----------------------------------------------------------------------------
(* mirror() alone: calls on any path with any URL, the upstream moving on     *)
(* between them.                                                              *)

SyncUrls == {Repo("R1").clone_url, AdhocWidget.clone_url}

SyncPaths == {<<"/srv/git", "/", "a", "/", "w">>, <<"/srv/git", "/", "a", "/", "y">>}

InitMirror ==
    /\ config = GroupConfig
    /\ pages \in {Layout(EmptyPage, EmptyPage)}
    /\ remote = [u \in Urls |-> 1]
    /\ fs0 \in {<<>>, PriorMirror(GroupConfig)}
    /\ fs = fs0
    /\ checkouts = <<>>
    /\ pc = "mirror"
    /\ i = 0
    /\ archive_plan = <<>>
    /\ data = <<>>
    /\ next_page = 0
    /\ requests = 0
    /\ served = <<>>
    /\ returned = None
    /\ findCalls = 0
    /\ output = <<>>
    /\ syncLog = <<>>
    /\ lookupFailed = FALSE
    /\ status = None
    /\ hist = NoHist

\* one call mirror(url, path)
Sync ==
    /\ pc = "mirror"
    /\ i < MaxSyncs
    /\ \E url \in SyncUrls, path \in SyncPaths :
           \E git \in GitOutcomes(fs, path) :
               LET r == mirror(fs, url, path, git)
               IN  /\ fs' = r.fs
                   /\ hist' = [prev |-> hist.last,
                               last |-> [url |-> url, path |-> path, git |-> git,
                                         step |-> r.step,
                                         before |-> StateOf(fs, path),
                                         after |-> StateOf(r.fs, path)],
                               between |-> hist.clean,
                               clean |-> TRUE]
    /\ i' = i + 1
    /\ UNCHANGED <<env, checkouts, pc, archive_plan, paging, findCalls, output,
                   syncLog, lookupFailed, status>>

\* the upstream of a URL moves on to its next version
Push ==
    /\ pc = "mirror"
    /\ \E url \in SyncUrls :
           /\ remote[url] < MaxVersion
           /\ remote' = [remote EXCEPT ![url] = @ + 1]
    /\ hist' = [hist EXCEPT !.clean = FALSE]
    /\ UNCHANGED <<config, pages, fs0, fs, checkouts, pc, i, archive_plan, paging,
                   findCalls, output, syncLog, lookupFailed, status>>

NextMirror ==
    \/ Sync
    \/ Push

SpecMirror == InitMirror /\ [][NextMirror]_vars

-----------------------------------------------------------------------------
(* repo_to_cgitrc alone: main renders one ad-hoc repository whose description  *)
(* and homepage are any of the values a descriptor can carry.                  *)

RECURSIVE SeqsUpTo(_, _)
\* the sequences over S of at most n elements
SeqsUpTo(S, n) ==
    IF n = 0 THEN {<<>>}
    ELSE SeqsUpTo(S, n - 1)
         \cup {Append(q, x) : q \in {r \in SeqsUpTo(S, n - 1) : Len(r) = n - 1},
                               x \in S}

\* a description: null, absent from the dict, or text that may hold newlines
Descriptions == {None, Missing} \cup SeqsUpTo({"tool", "\n"}, MaxDescLen)

Homepages == {None, <<>>, <<"http://x">>}

RenderConfigs ==
    {[git_data_path |-> <<"/srv/git", "/">>, checkout_path |-> None,
      cgit_url |-> u, checkout_suffix |-> <<>>, repositories |-> <<>>,
      repos |-> <<[AdhocWidget EXCEPT !.description = d, !.homepage = h,
                                      !.name = n]>>,
      dry_run |-> TRUE] :
        u \in {None, <<"https://cgit/">>}, d \in Descriptions, h \in Homepages,
        n \in {<<"w">>, <<"y">>}}

InitRender ==
    /\ config \in RenderConfigs
    /\ pages \in {Layout(EmptyPage, EmptyPage)}
    /\ remote = [u \in Urls |-> 1]
    /\ fs0 = <<>>
    /\ fs = fs0
    /\ checkouts = <<>>
    /\ pc = "adhoc"
    /\ i = 1
    /\ archive_plan = <<>>
    /\ data = <<>>
    /\ next_page = 0
    /\ requests = 0
    /\ served = <<>>
    /\ returned = None
    /\ findCalls = 0
    /\ output = <<>>
    /\ syncLog = <<>>
    /\ lookupFailed = FALSE
    /\ status = None
    /\ hist = NoHist

NextRender ==
    \/ PlanAdhoc
    \/ PrintPlan

SpecRender == InitRender /\ [][NextRender]_vars

-----------------------------------------------------------------------------
(* clone() on its own: the destinations find_repos computes for two mirrors,
   materialized again and again while the mirrors move on. *)

\* the state of a destination that does not exist
NoCheckout == [kind |-> "absent", source |-> <<>>, content |-> 0]

CheckoutOf(store, path) == IF path \in DOMAIN store THEN store[path] ELSE NoCheckout

\* lines 82-89: git rev-parse --is-inside-work-tree prints "true" in a working
\* tree, "false" in a bare repository and nothing where there is no repository
is_work_tree(store, path) == CheckoutOf(store, path).kind = "worktree"

\* what the git step of clone() can come to: git clone refuses a destination
\* that exists and is not empty
CloneOutcomes(store, path) ==
    IF path \in DOMAIN store /\ ~is_work_tree(store, path) THEN {"fail"}
    ELSE {"ok", "fail"}

\* lines 63-69: pull inside a working tree, else git clone --bare
clone(store, mirrors, source, destination, git) ==
    IF is_work_tree(store, destination)
    THEN [checkouts |-> IF git = "ok"
                        THEN [store EXCEPT ![destination].content =
                                  mirrors[store[destination].source].content]
                        ELSE store,
          step |-> "pull"]
    ELSE [checkouts |-> IF git = "ok"
                        THEN (destination :> [kind |-> "bare", source |-> source,
                                              content |-> mirrors[source].content])
                                 @@ store
                        ELSE store,
          step |-> "clone"]

\* lines 158-159: the destination of a mirror's checkout
Destination(c, path) == Replace(path, c.git_data_path, c.checkout_path)

CheckoutConfigs ==
    {c \in Configs : /\ Truthy(c.checkout_path)
                     /\ ~c.dry_run
                     /\ c.cgit_url = None
                     /\ c.repositories = <<>>
                     /\ c.repos = <<>>}

\* where main puts the mirror of a GitHub repository
MirrorPath(c, id) == join(c.git_data_path, Repo(id).full_name \o c.checkout_suffix)

\* two mirrors, of R1 and of R3, synced by an earlier run
MirrorTree(c) ==
    [p \in {MirrorPath(c, "R1"), MirrorPath(c, "R3")} |->
        [kind |-> "repo",
         origin |-> IF p = MirrorPath(c, "R1") THEN Repo("R1").clone_url
                    ELSE Repo("R3").clone_url,
         content |-> 0, marker |-> <<"date", 0>>, cgitrc |-> <<"old">>]]

\* a working tree an operator cloned by hand from the mirror of R1
HandMade(c) ==
    Destination(c, MirrorPath(c, "R1"))
        :> [kind |-> "worktree", source |-> MirrorPath(c, "R1"), content |-> 0]

InitCheckout ==
    /\ config \in CheckoutConfigs
    /\ pages = Layout(EmptyPage, EmptyPage)
    /\ remote = [u \in Urls |-> 1]
    /\ fs0 = MirrorTree(config)
    /\ fs = fs0
    /\ checkouts \in {<<>>, HandMade(config)}
    /\ pc = "checkout"
    /\ i = 0
    /\ archive_plan = <<>>
    /\ data = <<>>
    /\ next_page = 0
    /\ requests = 0
    /\ served = <<>>
    /\ returned = None
    /\ findCalls = 0
    /\ output = <<>>
    /\ syncLog = <<>>
    /\ lookupFailed = FALSE
    /\ status = None
    /\ hist = NoHist

\* clone(source, destination) for one mirror of the tree
Clone ==
    /\ pc = "checkout"
    /\ i < MaxClones
    /\ \E source \in DOMAIN fs :
           LET destination == Destination(config, source)
           IN  \E git \in CloneOutcomes(checkouts, destination) :
                   LET r == clone(checkouts, fs, source, destination, git)
                   IN  /\ checkouts' = r.checkouts
                       /\ hist' = [prev |-> hist.last,
                                   last |-> [url |-> source, path |-> destination,
                                             git |-> git, step |-> r.step,
                                             before |-> CheckoutOf(checkouts, destination),
                                             after |-> CheckoutOf(r.checkouts, destination)],
                                   between |-> hist.clean,
                                   clean |-> TRUE]
    /\ i' = i + 1
    /\ UNCHANGED <<env, fs, pc, archive_plan, paging, findCalls, output, syncLog,
                   lookupFailed, status>>

\* a later run's sync brings a mirror to its upstream's next version
Advance ==
    /\ pc = "checkout"
    /\ \E path \in DOMAIN fs :
           /\ fs[path].content < MaxVersion
           /\ fs' = [fs EXCEPT ![path].content = @ + 1]
    /\ hist' = [hist EXCEPT !.clean = FALSE]
    /\ UNCHANGED <<env, checkouts, pc, i, archive_plan, paging, findCalls, output,
                   syncLog, lookupFailed, status>>

NextCheckout ==
    \/ Clone
    \/ Advance

SpecCheckout == InitCheckout /\ [][NextCheckout]_vars

-----------------------------------------------------------------------------
(* The claims. *)

Terminated == pc \in {"done", "crashed"}

Untouched ==
    /\ fs = fs0
    /\ syncLog = <<>>
    /\ findCalls = 0
    /\ checkouts = <<>>

\* C1: once a catalog lookup (get_repo, or a page of get_repos) has failed, the
\* run is aborted or about to be, and no mirror sync, no metadata or marker
\* write and no checkout has happened or ever happens in it, whatever was
\* planned before the failing lookup.
C1_PlanningAllOrNothing ==
    lookupFailed => /\ pc \in {"paging", "crashed"}
                    /\ Untouched
                    /\ output = <<>>

\* a lookup failed after entries had been planned, in a run that would execute
C1_Witness ==
    /\ lookupFailed
    /\ pc = "crashed"
    /\ Len(archive_plan) > 0
    /\ ~config.dry_run

\* C2: when the run has ended after an entry's sync failed, every entry of
\* the plan was attempted, and every entry whose sync succeeded has its mirror
\* and its metadata file.
C2_FailuresIsolated ==
    (Terminated /\ \E k \in 1..Len(syncLog) : syncLog[k].git # "ok")
        => /\ Len(syncLog) = Len(archive_plan)
           /\ \A k \in 1..Len(syncLog) :
                  syncLog[k].git = "ok"
                      => /\ syncLog[k].path \in DOMAIN fs
                         /\ fs[syncLog[k].path].kind = "repo"
                         /\ fs[syncLog[k].path].cgitrc # Missing

\* C3: the plan never holds two entries with the same local path (a
\* configuration that would produce them fails planning instead).
C3_PathsDistinct ==
    \A j, k \in 1..Len(archive_plan) :
        j # k => archive_plan[j].path # archive_plan[k].path

\* C4: get_repos terminates on every upstream.  The upstream answers a page
\* number the same way throughout a call and the loop's only state is the
\* cursor, so the call terminates exactly when it never requests a page it has
\* already been served.
C4_PagingTerminates ==
    \A j, k \in 1..Len(served) : j # k => served[j] # served[k]

\* C5: what get_repos returns is exactly the non-fork descriptors of the
\* pages it was served, each of them once.
C5_UnionWithoutDuplicates ==
    returned # None
        => /\ {returned[k] : k \in 1..Len(returned)}
                  = {r \in UNION {{pages[served[k]].items[m] :
                                      m \in 1..Len(pages[served[k]].items)} :
                                  k \in 1..Len(served)} : ~Repo(r).fork}
           /\ \A j, k \in 1..Len(returned) : j # k => returned[j] # returned[k]

\* C6: in a dry run nothing is mirrored, written or checked out at any point,
\* with or without a checkout root, and the finished run has printed one line
\* <full_name> (<remote_url>) -> <local_path> for each plan entry, in plan order.
C6_DryRunMutatesNothing ==
    config.dry_run
        => /\ Untouched
           /\ pc # "mirroring"
           /\ pc = "done"
                  => /\ Len(output) = Len(archive_plan)
                     /\ \A k \in 1..Len(archive_plan) :
                            output[k] = archive_plan[k].repo.full_name \o <<" (">>
                                        \o archive_plan[k].url \o <<") -> ">>
                                        \o archive_plan[k].path

\* a finished dry run of a plan of several entries, over storage that holds a
\* mirror, with a checkout root configured
C6_Witness ==
    /\ config.dry_run
    /\ pc = "done"
    /\ Len(output) >= 2
    /\ Truthy(config.checkout_path)
    /\ fs0 # <<>>

\* the bare mirrors of the tree below git_data_path
Mirrors == {p \in ScanDirs(fs, config.git_data_path) : fs[p].kind = "repo"}

\* C7: once find_repos has run over the mirror tree, there are exactly as
\* many checkouts as bare mirrors in the tree, each at its mirror's path with
\* the mirror root replaced by the checkout root, bound to that mirror.
C7_OneCheckoutPerMirror ==
    (Terminated /\ findCalls > 0)
        => /\ Cardinality(DOMAIN checkouts) = Cardinality(Mirrors)
           /\ \A p \in Mirrors :
                  LET d == Replace(p, config.git_data_path, config.checkout_path)
                  IN  d \in DOMAIN checkouts /\ checkouts[d].source = p

\* the latest call repeated the one before it: same URL and path, no upstream
\* change in between, and the first of the two synced
Repeated ==
    /\ hist.prev # NoCall
    /\ hist.between
    /\ hist.last.url = hist.prev.url
    /\ hist.last.path = hist.prev.path
    /\ hist.prev.git = "ok"

\* C8: a second mirror(url, path) right after a first that synced, with no
\* upstream change in between, leaves the mirror content as the first left it
\* and writes the same last-modified marker.
C8_MirrorIdempotent ==
    Repeated => /\ hist.last.after.kind = hist.prev.after.kind
                /\ hist.last.after.content = hist.prev.after.content
                /\ hist.last.after.marker = hist.prev.after.marker
                /\ hist.last.after.origin = hist.prev.after.origin

\* a clone followed by a successful update of the same path from the same URL
C8_Witness ==
    /\ Repeated
    /\ hist.last.git = "ok"
    /\ hist.last.after.kind = "repo"
    /\ hist.last.after.content > 0

\* C9: a non-dry run that got to execute its plan ends with status 0 exactly
\* when no mirror sync and no checkout operation failed in it.
C9_StatusReflectsFailures ==
    (Terminated /\ ~config.dry_run /\ (pc = "done" \/ syncLog # <<>> \/ findCalls > 0))
        => (status = 0 <=> /\ \A k \in 1..Len(syncLog) : syncLog[k].git = "ok"
                           /\ ~(findCalls > 0 /\ pc = "crashed"))

Rank(kind) ==
    CASE kind = "repo" -> 1
      [] kind = "group" -> 2
      [] kind = "adhoc" -> 3

\* C10 as stated: in the plan every entry of an owner/name reference comes
\* before every entry expanded from a group reference, and those before every
\* ad-hoc entry.
C10_KindOrder ==
    \A j, k \in 1..Len(archive_plan) :
        j < k => Rank(archive_plan[j].ref.kind) <= Rank(archive_plan[k].ref.kind)

\* the position in the configuration of the reference an entry came from
Position(ref) ==
    IF ref.kind = "adhoc" THEN Len(config.repositories) + ref.index ELSE ref.index

\* C10 as amended: the plan follows the configuration: the entries of
\* github.repositories in the order of the list, an owner/name reference giving
\* its one entry and a group reference its expansion at the place of the
\* reference, then the ad-hoc entries in their order; the syncs of the
\* execution and the lines of the dry run follow the plan.
C10_ConfigOrder ==
    /\ \A j, k \in 1..Len(archive_plan) :
           j < k => Position(archive_plan[j].ref) <= Position(archive_plan[k].ref)
    /\ \A k \in 1..Len(archive_plan) :
           LET ref == archive_plan[k].ref
           IN  ref.kind # "adhoc"
                   => (ref.kind = "repo" <=> HasSlash(config.repositories[ref.index]))
    /\ Len(syncLog) <= Len(archive_plan)
    /\ \A k \in 1..Len(syncLog) :
           /\ syncLog[k].path = archive_plan[k].path
           /\ syncLog[k].url = archive_plan[k].url
    /\ (pc = "done" /\ config.dry_run)
           => /\ Len(output) = Len(archive_plan)
              /\ \A k \in 1..Len(output) : output[k] = PlanLine(archive_plan[k])

\* a plan with a group entry ahead of an owner/name entry, executed to its end
C10_Witness ==
    /\ \E j, k \in 1..Len(archive_plan) :
           /\ j < k
           /\ archive_plan[j].ref.kind = "group"
           /\ archive_plan[k].ref.kind = "repo"
    /\ Len(syncLog) = Len(archive_plan)
    /\ pc = "done"

\* the value of the desc= line of rendered metadata m is empty
EmptyDesc(m) == \E k \in 1..(Len(m) - 1) : m[k] = "desc=" /\ m[k + 1] = "\n"

\* C11: rendered metadata never holds an empty desc= line: a descriptor
\* without a description gets the placeholder line, any other a desc= line with
\* a non-empty value, its description without the newlines.
C11_NoEmptyDesc ==
    \A k \in 1..Len(archive_plan) :
        LET e == archive_plan[k]
        IN  /\ ~EmptyDesc(e.metadata)
            /\ ~Truthy(e.repo.description)
                   => \E m \in 1..Len(e.metadata) :
                          e.metadata[m] = "desc=Mysterious Project"

\* C12: mirror() updates exactly when the path holds a mirror's object store
\* and clones otherwise, also on what an earlier failed sync left behind.
C12_UpdateIffMirror ==
    hist.last # NoCall
        => /\ hist.last.step = "update" <=> hist.last.before.kind = "repo"
           /\ hist.last.step = "clone" <=> hist.last.before.kind # "repo"

\* C13: an entry whose clone or update step fails gets no cgitrc and no
\* last-modified marker in that run, and nothing is created under its path.
C13_WritesOnlyAfterSuccess ==
    \A k \in 1..Len(syncLog) :
        syncLog[k].git # "ok" => syncLog[k].after = syncLog[k].before

\* C18: once a path exists, a later mirror(url, path) leaves its
\* recorded remote alone and brings in the content of that remote, whatever
\* url it is given; a step that fails leaves the content as it was.
C18_UpstreamFixedAtClone ==
    (hist.last # NoCall /\ hist.clean /\ hist.last.before.kind # "absent")
        => /\ hist.last.step = "update"
           /\ hist.last.after.origin = hist.last.before.origin
           /\ hist.last.after.content =
                  IF hist.last.git = "ok"
                  THEN remote[hist.last.before.origin]
                  ELSE hist.last.before.content

\* C18 witness: an update that was handed another URL than the mirror's own,
\* while the two remotes differ, and that synced.
C18_Witness ==
    /\ hist.last # NoCall
    /\ hist.clean
    /\ hist.last.before.kind = "repo"
    /\ hist.last.git = "ok"
    /\ hist.last.url # hist.last.before.origin
    /\ remote[hist.last.url] # remote[hist.last.before.origin]

\* the entry loop of a run was left by the exception of its latest sync
LoopAborted == syncLog # <<>> /\ syncLog[Len(syncLog)].git = "denied"

\* C15: find_repos is called at most once, only in a non-dry run with a
\* checkout root and only after every plan entry was synced and its cgitrc
\* written; a run that mirrored its whole plan and ended has called it exactly
\* when a checkout root is configured; and an entry's cgitrc is written
\* before the next entry's sync begins.
C15_MaterializeOnceAtEnd ==
    /\ findCalls <= 1
    /\ findCalls = 1
           => /\ ~config.dry_run
              /\ Truthy(config.checkout_path)
              /\ Len(syncLog) = Len(archive_plan)
              /\ ~LoopAborted
    /\ (Terminated /\ ~config.dry_run /\ ~LoopAborted /\ (pc = "done" \/ syncLog # <<>>))
           => (findCalls = 1 <=> Truthy(config.checkout_path))
    /\ \A k \in 1..Len(syncLog) :
           /\ syncLog[k].path = archive_plan[k].path
           /\ (k < Len(syncLog) \/ ~LoopAborted)
                  => /\ syncLog[k].after.cgitrc = archive_plan[k].metadata
                     /\ syncLog[k].after.marker # Missing

\* C15 witness: a run with a checkout root that synced two entries and then
\* called find_repos.
C15_Witness ==
    /\ Terminated
    /\ findCalls = 1
    /\ Len(syncLog) >= 2

\* C16: every plan entry's local path is <git_data_root>/<full_name><suffix>
\* for the full_name of its descriptor, whether or not the root ends in a
\* separator.
C16_PathFormula ==
    \A k \in 1..Len(archive_plan) :
        archive_plan[k].path =
            join(config.git_data_path,
                 archive_plan[k].repo.full_name \o config.checkout_suffix)

\* the plan entries that came from one reference of the configuration
EntriesOf(kind, index) ==
    SelectSeq(archive_plan, LAMBDA e : e.ref = [kind |-> kind, index |-> index])

RECURSIVE Fetched(_)
\* what the first k pages served to get_repos held
Fetched(k) == IF k = 0 THEN <<>> ELSE Fetched(k - 1) \o pages[served[k]].items

\* the github reference j has been planned
GithubPlanned(j) ==
    \/ pc = "github" /\ j < i
    \/ pc \in {"adhoc", "mirroring", "done"}

\* the ad-hoc repository k has been planned
AdhocPlanned(k) ==
    \/ pc = "adhoc" /\ k < i
    \/ pc \in {"mirroring", "done"}

\* C17: no entry planned through a group reference is a fork, and the fork
\* filter of get_repos is the only place a descriptor is dropped: a planned
\* group reference has one entry for each non-fork repository fetched, a
\* planned owner/name reference and a planned ad-hoc repository have exactly
\* one entry each, fork or not, and a non-dry run that returns has mirrored
\* every entry of the plan.
C17_ForkFilterOnlyInGroups ==
    /\ \A k \in 1..Len(archive_plan) :
           archive_plan[k].ref.kind = "group" => ~archive_plan[k].repo.fork
    /\ \A j \in 1..Len(config.repositories) :
           GithubPlanned(j)
               => IF HasSlash(config.repositories[j])
                  THEN /\ Len(EntriesOf("repo", j)) = 1
                       /\ EntriesOf("repo", j)[1].url =
                              GitHubUrl(Split(config.repositories[j])[1],
                                        Split(config.repositories[j])[2])
                  ELSE LET all == Fetched(Len(served))
                           kept == {n \in 1..Len(all) : ~Repo(all[n]).fork}
                           got == EntriesOf("group", j)
                       IN  /\ Len(got) = Cardinality(kept)
                           /\ \A n \in kept :
                                  \E m \in 1..Len(got) : got[m].repo = Repo(all[n])
    /\ \A k \in 1..Len(config.repos) :
           AdhocPlanned(k)
               => /\ Len(EntriesOf("adhoc", k)) = 1
                  /\ EntriesOf("adhoc", k)[1].url = config.repos[k].clone_url
                  /\ EntriesOf("adhoc", k)[1].repo.fork = config.repos[k].fork
    /\ (pc = "done" /\ ~config.dry_run)
           => /\ Len(syncLog) = Len(archive_plan)
              /\ \A k \in 1..Len(archive_plan) :
                     /\ syncLog[k].url = archive_plan[k].url
                     /\ syncLog[k].path = archive_plan[k].path

\* C17 witness: a run that returned after mirroring a fork named by an
\* owner/name reference and an ad-hoc repository flagged as a fork, while the
\* group reference next to them fetched a fork and planned no entry for it.
C17_Witness ==
    /\ pc = "done"
    /\ ~config.dry_run
    /\ \E k \in 1..Len(archive_plan) :
           /\ archive_plan[k].ref.kind = "repo"
           /\ archive_plan[k].repo.fork
           /\ syncLog[k].url = archive_plan[k].url
    /\ \E n \in 1..Len(Fetched(Len(served))) : Repo(Fetched(Len(served))[n]).fork
    /\ \E k \in 1..Len(archive_plan) : archive_plan[k].ref.kind = "group"
    /\ \E k \in 1..Len(archive_plan) :
           /\ archive_plan[k].ref.kind = "adhoc"
           /\ archive_plan[k].repo.fork
           /\ syncLog[k].url = archive_plan[k].url

\* C14: the first materialization of a mirror clones a working tree from it,
\* and every later one finds the checkout present and pulls.
C14_CloneThenPull ==
    hist.last # NoCall
        => IF hist.last.before.kind = "absent"
           THEN /\ hist.last.step = "clone"
                /\ hist.last.git = "ok" => hist.last.after.kind = "worktree"
           ELSE hist.last.step = "pull"

====
